---- MODULE Spec2Model ----
(***************************************************************************)
(* The bounded random-value device driver of device-dcs                    *)
(* (driver/simpledriver.go): a registry  randomDevices  from device name   *)
(* to a heap-allocated  randomDevice  holding a [min, max] pair for each   *)
(* of the widths Int8, Int16 and Int32, read by HandleReadCommands and     *)
(* updated by HandleWriteCommands.                                         *)
(*                                                                         *)
(* Two specifications are given.  Spec runs the two handlers one call at   *)
(* a time (each call is one atomic action, the host then takes the         *)
(* result).  ConcSpec runs calls of several host goroutines statement by   *)
(* statement; the driver takes no lock anywhere.                           *)
(*                                                                         *)
(* The type randomDevice, its constructor, its method value() and the      *)
(* constants defMin*/defMax* live in a file of the package that is not     *)
(* part of the sources at hand, as do the accessors of CommandValue; they  *)
(* are modelled from the specification text (sections 3, 4.1 and 6).       *)
(***************************************************************************)
EXTENDS Integers, Sequences, FiniteSets, TLC

VARIABLES
    randomDevices,  \* SimpleDriver.randomDevices: device name -> object id, 0 = no entry
    heap,           \* the randomDevice objects allocated so far, by object id
    call,           \* Spec: the call just made and its result, NoCall when the host took it
    procs,          \* ConcSpec: each goroutine's call, position and locals
    fatal           \* ConcSpec: the Go runtime stopped the process (concurrent map access)

vars == <<randomDevices, heap, call, procs, fatal>>

---------------------------------------------------------------------------
(* Bounds of the model *)

\* longest params slice of a write call
MaxParams == 2
\* longest reqs slice of a read call
MaxReqs == 2
\* goroutines of ConcSpec, each making one call
NProcs == 2

Devices == {"d1", "d2"}

SeqsUpTo(S, n) == UNION {[1..k -> S] : k \in 0..n}

---------------------------------------------------------------------------
(* Absolute limits and the device object *)

defMinInt8 == -128
defMaxInt8 == 127
defMinInt16 == -32768
defMaxInt16 == 32767
defMinInt32 == -2147483647 - 1
defMaxInt32 == 2147483647

Widths == {"Int8", "Int16", "Int32"}

MinField(t) ==
    CASE t = "Int8" -> "minInt8" [] t = "Int16" -> "minInt16" [] t = "Int32" -> "minInt32"

MaxField(t) ==
    CASE t = "Int8" -> "maxInt8" [] t = "Int16" -> "maxInt16" [] t = "Int32" -> "maxInt32"

Floor(t) ==
    CASE t = "Int8" -> defMinInt8 [] t = "Int16" -> defMinInt16 [] t = "Int32" -> defMinInt32

Ceiling(t) ==
    CASE t = "Int8" -> defMaxInt8 [] t = "Int16" -> defMaxInt16 [] t = "Int32" -> defMaxInt32

\* newRandomDevice(): every bound at the absolute limit of its width
newRandomDevice ==
    [minInt8 |-> defMinInt8, maxInt8 |-> defMaxInt8,
     minInt16 |-> defMinInt16, maxInt16 |-> defMaxInt16,
     minInt32 |-> defMinInt32, maxInt32 |-> defMaxInt32]

NoErr == "nil"

---------------------------------------------------------------------------
(* CommandValue: a typed value.  A value of type Int8 holds an int8, and   *)
(* so on; the typed accessor fails on a value of another type.             *)

Int8Value(param) ==
    IF param.Type = "Int8" THEN [v |-> param.Value, err |-> FALSE]
    ELSE [v |-> 0, err |-> TRUE]

Int16Value(param) ==
    IF param.Type = "Int16" THEN [v |-> param.Value, err |-> FALSE]
    ELSE [v |-> 0, err |-> TRUE]

Int32Value(param) ==
    IF param.Type = "Int32" THEN [v |-> param.Value, err |-> FALSE]
    ELSE [v |-> 0, err |-> TRUE]

\* Go's int8(v), int16(v), int32(v) of an int64: the low bits, sign-extended.
\* Every int64 the model holds fits 32 bits, where int32(v) is exact.
ToInt8(v) == ((v + 128) % 256) - 128
ToInt16(v) == ((v + 32768) % 65536) - 32768
ToInt32(v) == v

---------------------------------------------------------------------------
(* HandleWriteCommands: one iteration of the loop over params, and the loop *)

Failed(rd, e) == [rd |-> rd, err |-> e]

\* `rd.minInt8 = int64(v)`: the one field assigned, the widening is exact
Stored(rd, f, v) == [rd |-> [rd EXCEPT ![f] = v], err |-> NoErr]

\* a `case "Min_*"` arm: a = the accessor's (v, err), lim = the floor, f = the field
MinArm(rd, a, lim, f) ==
    IF a.err THEN Failed(rd, "ValueError")
    ELSE IF a.v < lim THEN Failed(rd, "OutOfRange")
    ELSE Stored(rd, f, a.v)

\* a `case "Max_*"` arm: lim = the ceiling
MaxArm(rd, a, lim, f) ==
    IF a.err THEN Failed(rd, "ValueError")
    ELSE IF a.v > lim THEN Failed(rd, "OutOfRange")
    ELSE Stored(rd, f, a.v)

\* for a mutant of WriteParam: the Max_Int16 arm assigns maxInt8 as well (a
\* line left over from the arm it was copied from)
WriteParamCopiedArm(rd, param) ==
    CASE param.RO.Object = "Min_Int8" -> MinArm(rd, Int8Value(param), defMinInt8, "minInt8")
      [] param.RO.Object = "Max_Int8" -> MaxArm(rd, Int8Value(param), defMaxInt8, "maxInt8")
      [] param.RO.Object = "Min_Int16" -> MinArm(rd, Int16Value(param), defMinInt16, "minInt16")
      [] param.RO.Object = "Max_Int16" ->
            LET r == MaxArm(rd, Int16Value(param), defMaxInt16, "maxInt16")
            IN  IF r.err # NoErr THEN r
                ELSE [r EXCEPT !.rd.maxInt8 = ToInt8(param.Value)]
      [] param.RO.Object = "Min_Int32" -> MinArm(rd, Int32Value(param), defMinInt32, "minInt32")
      [] param.RO.Object = "Max_Int32" -> MaxArm(rd, Int32Value(param), defMaxInt32, "maxInt32")
      [] OTHER -> Failed(rd, "UnknownField")

\* for a mutant of WriteParam: no default arm, an unmatched name falls through
WriteParamNoDefault(rd, param) ==
    CASE param.RO.Object = "Min_Int8" -> MinArm(rd, Int8Value(param), defMinInt8, "minInt8")
      [] param.RO.Object = "Max_Int8" -> MaxArm(rd, Int8Value(param), defMaxInt8, "maxInt8")
      [] param.RO.Object = "Min_Int16" -> MinArm(rd, Int16Value(param), defMinInt16, "minInt16")
      [] param.RO.Object = "Max_Int16" -> MaxArm(rd, Int16Value(param), defMaxInt16, "maxInt16")
      [] param.RO.Object = "Min_Int32" -> MinArm(rd, Int32Value(param), defMinInt32, "minInt32")
      [] param.RO.Object = "Max_Int32" -> MaxArm(rd, Int32Value(param), defMaxInt32, "maxInt32")
      [] OTHER -> [rd |-> rd, err |-> NoErr]

\* the body of `switch param.RO.Object`: the device after it and the error returned
WriteParam(rd, param) ==
    CASE param.RO.Object = "Min_Int8" -> MinArm(rd, Int8Value(param), defMinInt8, "minInt8")
      [] param.RO.Object = "Max_Int8" -> MaxArm(rd, Int8Value(param), defMaxInt8, "maxInt8")
      [] param.RO.Object = "Min_Int16" -> MinArm(rd, Int16Value(param), defMinInt16, "minInt16")
      [] param.RO.Object = "Max_Int16" -> MaxArm(rd, Int16Value(param), defMaxInt16, "maxInt16")
      [] param.RO.Object = "Min_Int32" -> MinArm(rd, Int32Value(param), defMinInt32, "minInt32")
      [] param.RO.Object = "Max_Int32" -> MaxArm(rd, Int32Value(param), defMaxInt32, "maxInt32")
      [] OTHER -> Failed(rd, "UnknownField")

RECURSIVE WriteLoopSkipsInvalid(_, _, _)
\* for a mutant of WriteLoop: an invalid update is reported at the end of the
\* batch, after the updates that follow it were applied
WriteLoopSkipsInvalid(rd, params, i) ==
    IF i > Len(params) THEN [rd |-> rd, err |-> NoErr]
    ELSE LET r == WriteParam(rd, params[i])
             rest == WriteLoopSkipsInvalid(r.rd, params, i + 1)
         IN  IF r.err # NoErr THEN [rd |-> rest.rd, err |-> r.err] ELSE rest

RECURSIVE WriteLoop(_, _, _)
\* `for _, param := range params`, from iteration i on: return at the first error
WriteLoop(rd, params, i) ==
    IF i > Len(params) THEN [rd |-> rd, err |-> NoErr]
    ELSE LET r == WriteParam(rd, params[i])
         IN  IF r.err # NoErr THEN [rd |-> r.rd, err |-> r.err]
             ELSE WriteLoop(r.rd, params, i + 1)

---------------------------------------------------------------------------
(* HandleReadCommands: randomDevice.value and the loop over reqs *)

\* the values the model lets the generator draw from [lo, hi]
Candidates(lo, hi) == {x \in {lo, hi} : lo <= x /\ x <= hi}

\* rd.value(t): a value drawn from [min, max] of the width t, UnsupportedType for
\* any other t.  With min > max the range is empty and the outcome is left open:
\* an error, or any value of the width.
value(rd, t) ==
    IF t \notin Widths THEN {[v |-> 0, err |-> "UnsupportedType"]}
    ELSE LET lo == rd[MinField(t)]
             hi == rd[MaxField(t)]
         IN  IF lo <= hi
             THEN {[v |-> x, err |-> NoErr] : x \in Candidates(lo, hi)}
             ELSE {[v |-> 0, err |-> "EmptyRange"]}
                    \cup {[v |-> x, err |-> NoErr] : x \in {lo, hi}}

\* `switch t`: the CommandValue built from v
NewValue(t, v) ==
    CASE t = "Int8" -> ToInt8(v)
      [] t = "Int16" -> ToInt16(v)
      [] t = "Int32" -> ToInt32(v)

RECURSIVE ReadLoopSkipsErrors(_, _, _, _)
\* for a mutant of ReadLoop: a request whose value() fails is skipped
ReadLoopSkipsErrors(rd, reqs, i, res) ==
    IF i > Len(reqs) THEN {[res |-> res, err |-> NoErr]}
    ELSE UNION {IF o.err # NoErr
                THEN ReadLoopSkipsErrors(rd, reqs, i + 1, res)
                ELSE ReadLoopSkipsErrors(rd, reqs, i + 1, Append(res, NewValue(reqs[i], o.v)))
                : o \in value(rd, reqs[i])}

RECURSIVE ReadLoop(_, _, _, _)
\* `for i, req := range reqs`, from iteration i on: the possible (res, err)
ReadLoop(rd, reqs, i, res) ==
    IF i > Len(reqs) THEN {[res |-> res, err |-> NoErr]}
    ELSE UNION {IF o.err # NoErr
                THEN {[res |-> <<>>, err |-> o.err]}
                ELSE ReadLoop(rd, reqs, i + 1, Append(res, NewValue(reqs[i], o.v)))
                : o \in value(rd, reqs[i])}

---------------------------------------------------------------------------
(* The registry *)

\* for a mutant of LookupOrCreate: no lookup, a new device on every call
LookupAlwaysCreates(devs, hp, deviceName) ==
    [devs |-> [devs EXCEPT ![deviceName] = Len(hp) + 1],
     heap |-> Append(hp, newRandomDevice),
     rd |-> Len(hp) + 1]

\* `rd, ok := s.randomDevices[deviceName]; if !ok { rd = newRandomDevice();
\* s.randomDevices[deviceName] = rd }`, the opening of both handlers
LookupOrCreate(devs, hp, deviceName) ==
    IF devs[deviceName] # 0
    THEN [devs |-> devs, heap |-> hp, rd |-> devs[deviceName]]
    ELSE [devs |-> [devs EXCEPT ![deviceName] = Len(hp) + 1],
          heap |-> Append(hp, newRandomDevice),
          rd |-> Len(hp) + 1]

---------------------------------------------------------------------------
(* Inputs *)

Param(o, t, v) == [RO |-> [Object |-> o], Type |-> t, Value |-> v]

\* updates the host sends: every bound at its limit, some bounds inside the
\* range, values outside the width of the bound they name (carried by a wider
\* type), and a name that is no bound
ParamPool ==
    {Param("Min_Int8", "Int8", -128), Param("Min_Int8", "Int8", 10),
     Param("Max_Int8", "Int8", 127), Param("Max_Int8", "Int8", -10),
     Param("Min_Int16", "Int16", -32768),
     Param("Max_Int16", "Int16", 32767), Param("Max_Int16", "Int16", 300),
     Param("Min_Int32", "Int32", defMinInt32), Param("Min_Int32", "Int32", -70000),
     Param("Max_Int32", "Int32", defMaxInt32),
     Param("Min_Int8", "Int16", -129), Param("Max_Int16", "Int32", 32768),
     Param("Switch", "Int8", 1)}

ReqTypes == {"Int8", "Int16", "Int32", "Float32"}

ReadInputs == SeqsUpTo(ReqTypes, MaxReqs)
WriteInputs == SeqsUpTo(ParamPool, MaxParams)

NoCall == [op |-> "none", dev |-> "", reqs |-> <<>>, params |-> <<>>,
           res |-> <<>>, err |-> NoErr]

NoProc == [pc |-> "idle", op |-> "none", dev |-> "", reqs |-> <<>>, params |-> <<>>,
           i |-> 0, rd |-> 0, res |-> <<>>, err |-> NoErr,
           inserted |-> FALSE, snap |-> <<>>, samples |-> <<>>]

Procs == 1..NProcs

\* the calls the goroutines of ConcSpec make
ConcPool ==
    {Param("Min_Int8", "Int8", -10), Param("Max_Int8", "Int8", 10),
     Param("Max_Int16", "Int32", 32768)}

ConcReqTypes == {"Int8", "Float32"}

ConcReadInputs == SeqsUpTo(ConcReqTypes, MaxReqs)
ConcWriteInputs == SeqsUpTo(ConcPool, MaxParams)

---------------------------------------------------------------------------
(* Spec: one call at a time *)

Init ==
    /\ randomDevices = [d \in Devices |-> 0]
    /\ heap = <<>>
    /\ call = NoCall
    /\ procs = [p \in Procs |-> NoProc]
    /\ fatal = FALSE

HandleReadCommands(deviceName, reqs) ==
    /\ LET l == LookupOrCreate(randomDevices, heap, deviceName)
       IN  \E o \in ReadLoop(l.heap[l.rd], reqs, 1, <<>>) :
              /\ randomDevices' = l.devs
              /\ heap' = l.heap
              /\ call' = [op |-> "Read", dev |-> deviceName, reqs |-> reqs,
                          params |-> <<>>, res |-> o.res, err |-> o.err]
    /\ UNCHANGED <<procs, fatal>>

HandleWriteCommands(deviceName, params) ==
    /\ LET l == LookupOrCreate(randomDevices, heap, deviceName)
           w == WriteLoop(l.heap[l.rd], params, 1)
       IN  /\ randomDevices' = l.devs
           /\ heap' = [l.heap EXCEPT ![l.rd] = w.rd]
           /\ call' = [op |-> "Write", dev |-> deviceName, reqs |-> <<>>,
                       params |-> params, res |-> <<>>, err |-> w.err]
    /\ UNCHANGED <<procs, fatal>>

\* the host takes the result of the call
Return ==
    /\ call # NoCall
    /\ call' = NoCall
    /\ UNCHANGED <<randomDevices, heap, procs, fatal>>

\* the host makes its next call when it has taken the result of the last one
Read ==
    /\ call = NoCall
    /\ \E d \in Devices, reqs \in ReadInputs : HandleReadCommands(d, reqs)

Write ==
    /\ call = NoCall
    /\ \E d \in Devices, params \in WriteInputs : HandleWriteCommands(d, params)

Next == Read \/ Write \/ Return

Spec == Init /\ [][Next]_vars

---------------------------------------------------------------------------
(* ConcSpec: the host's goroutines call the handlers concurrently.  The     *)
(* driver holds no lock: a step is one statement of a handler (a map        *)
(* lookup, the creation and map store, one iteration of a loop, a return),  *)
(* and the steps of different goroutines interleave freely.                 *)

\* a goroutine enters HandleReadCommands or HandleWriteCommands
Begin(p, op, deviceName, reqs, params) ==
    /\ ~fatal
    /\ procs[p].pc = "idle"
    /\ procs' = [procs EXCEPT ![p] = [NoProc EXCEPT !.pc = "lookup", !.op = op,
                                        !.dev = deviceName, !.reqs = reqs,
                                        !.params = params]]
    /\ UNCHANGED <<randomDevices, heap, call, fatal>>

\* `rd, ok := s.randomDevices[deviceName]`
Lookup(p) ==
    /\ ~fatal
    /\ procs[p].pc = "lookup"
    /\ procs' = [procs EXCEPT ![p] =
                    IF randomDevices[procs[p].dev] # 0
                    THEN [@ EXCEPT !.pc = "loop", !.i = 1,
                                   !.rd = randomDevices[procs[p].dev],
                                   !.snap = heap[randomDevices[procs[p].dev]]]
                    ELSE [@ EXCEPT !.pc = "new"]]
    /\ UNCHANGED <<randomDevices, heap, call, fatal>>

\* `rd = newRandomDevice(); s.randomDevices[deviceName] = rd`, after a lookup
\* that found no entry, whatever the map holds by now
Create(p) ==
    /\ ~fatal
    /\ procs[p].pc = "new"
    /\ heap' = Append(heap, newRandomDevice)
    /\ randomDevices' = [randomDevices EXCEPT ![procs[p].dev] = Len(heap) + 1]
    /\ procs' = [procs EXCEPT ![p] = [@ EXCEPT !.pc = "loop", !.i = 1,
                                               !.rd = Len(heap) + 1,
                                               !.inserted = TRUE,
                                               !.snap = newRandomDevice]]
    /\ UNCHANGED <<call, fatal>>

\* the map store of one goroutine meets a map access of another: the Go runtime
\* may detect it and end the process (concurrent map read and map write,
\* concurrent map writes)
MapFault(p) ==
    /\ ~fatal
    /\ procs[p].pc = "new"
    /\ \E q \in Procs \ {p} : procs[q].pc \in {"lookup", "new"}
    /\ fatal' = TRUE
    /\ UNCHANGED <<randomDevices, heap, call, procs>>

\* for a Read: the goroutines that are inside the write loop on the same device
\* object at this moment
WritersOn(p) ==
    {q \in Procs \ {p} : /\ procs[q].op = "Write" /\ procs[q].pc = "loop"
                         /\ procs[q].rd = procs[p].rd}

\* one iteration of the read loop: value() reads the device's bounds as they
\* are now (in one step: the min and max of one sample are read together)
ReadIter(p) ==
    /\ ~fatal
    /\ procs[p].pc = "loop" /\ procs[p].op = "Read"
    /\ procs[p].i <= Len(procs[p].reqs)
    /\ LET t == procs[p].reqs[procs[p].i]
           rd == heap[procs[p].rd]
       IN  \E o \in value(rd, t) :
              procs' = [procs EXCEPT ![p] =
                          IF o.err # NoErr
                          THEN [@ EXCEPT !.pc = "done", !.res = <<>>, !.err = o.err]
                          ELSE [@ EXCEPT !.i = @ + 1,
                                         !.res = Append(@, NewValue(t, o.v)),
                                         !.samples = Append(@,
                                             [t |-> t, lo |-> rd[MinField(t)],
                                              hi |-> rd[MaxField(t)],
                                              writers |-> WritersOn(p)])]]
    /\ UNCHANGED <<randomDevices, heap, call, fatal>>

\* one iteration of the write loop, on the device object the goroutine holds
WriteIter(p) ==
    /\ ~fatal
    /\ procs[p].pc = "loop" /\ procs[p].op = "Write"
    /\ procs[p].i <= Len(procs[p].params)
    /\ LET r == WriteParam(heap[procs[p].rd], procs[p].params[procs[p].i])
       IN  /\ heap' = [heap EXCEPT ![procs[p].rd] = r.rd]
           /\ procs' = [procs EXCEPT ![p] =
                          IF r.err # NoErr
                          THEN [@ EXCEPT !.pc = "done", !.err = r.err]
                          ELSE [@ EXCEPT !.i = @ + 1]]
    /\ UNCHANGED <<randomDevices, call, fatal>>

\* `return res, nil`, `return nil`: the loop is over
ReturnNil(p) ==
    /\ ~fatal
    /\ procs[p].pc = "loop"
    /\ procs[p].i > Len(IF procs[p].op = "Read" THEN procs[p].reqs ELSE procs[p].params)
    /\ procs' = [procs EXCEPT ![p] = [@ EXCEPT !.pc = "done"]]
    /\ UNCHANGED <<randomDevices, heap, call, fatal>>

BeginRead ==
    \E p \in Procs, d \in Devices, reqs \in ConcReadInputs : Begin(p, "Read", d, reqs, <<>>)

BeginWrite ==
    \E p \in Procs, d \in Devices, params \in ConcWriteInputs : Begin(p, "Write", d, <<>>, params)

ConcNext ==
    \/ BeginRead
    \/ BeginWrite
    \/ \E p \in Procs : Lookup(p)
    \/ \E p \in Procs : Create(p)
    \/ \E p \in Procs : MapFault(p)
    \/ \E p \in Procs : ReadIter(p)
    \/ \E p \in Procs : WriteIter(p)
    \/ \E p \in Procs : ReturnNil(p)

ConcSpec == Init /\ [][ConcNext]_vars

---------------------------------------------------------------------------
(* What the properties speak of *)

BoundNames == {"Min_Int8", "Max_Int8", "Min_Int16", "Max_Int16", "Min_Int32", "Max_Int32"}

Fields == {"minInt8", "maxInt8", "minInt16", "maxInt16", "minInt32", "maxInt32"}

WidthOf(o) ==
    CASE o \in {"Min_Int8", "Max_Int8"} -> "Int8"
      [] o \in {"Min_Int16", "Max_Int16"} -> "Int16"
      [] o \in {"Min_Int32", "Max_Int32"} -> "Int32"

IsMin(o) == o \in {"Min_Int8", "Min_Int16", "Min_Int32"}

FieldOf(o) == IF IsMin(o) THEN MinField(WidthOf(o)) ELSE MaxField(WidthOf(o))

\* the update names a bound and its value respects the absolute limit of that bound
Valid(param) ==
    /\ param.RO.Object \in BoundNames
    /\ IF IsMin(param.RO.Object)
       THEN param.Value >= Floor(WidthOf(param.RO.Object))
       ELSE param.Value <= Ceiling(WidthOf(param.RO.Object))

\* the position of the first invalid update, Len(params) + 1 when there is none
FirstInvalid(params) ==
    IF \A i \in 1..Len(params) : Valid(params[i]) THEN Len(params) + 1
    ELSE CHOOSE k \in 1..Len(params) :
            ~Valid(params[k]) /\ \A j \in 1..(k - 1) : Valid(params[j])

RECURSIVE ApplyPrefix(_, _, _)
\* the device after exactly the updates 1..n, each replacing the bound it names
ApplyPrefix(rd, params, n) ==
    IF n = 0 THEN rd
    ELSE [ApplyPrefix(rd, params, n - 1) EXCEPT ![FieldOf(params[n].RO.Object)] = params[n].Value]

Present(d) == randomDevices[d] # 0

\* the device's state as a call finds it: the stored one, or the one it creates
Before(d) == IF Present(d) THEN heap[randomDevices[d]] ELSE newRandomDevice

\* a step that is a call of the handler op
Called(op) == call = NoCall /\ call'.op = op

---------------------------------------------------------------------------
(* C1 *)

\* C1: for every device of the registry and every width, the stored minimum
\* is at most the stored maximum in every reachable state.
C1_MinLeMax ==
    \A d \in Devices : Present(d) =>
        \A t \in Widths :
            heap[randomDevices[d]][MinField(t)] <= heap[randomDevices[d]][MaxField(t)]

---------------------------------------------------------------------------
(* C2 *)

\* C2: a Read of supported widths returns, for each request, a value between
\* the device's current minimum and maximum of that width.
C2_ReadWithinBounds ==
    (call.op = "Read" /\ \A i \in 1..Len(call.reqs) : call.reqs[i] \in Widths) =>
        /\ call.err = NoErr
        /\ Len(call.res) = Len(call.reqs)
        /\ \A i \in 1..Len(call.reqs) :
              /\ heap[randomDevices[call.dev]][MinField(call.reqs[i])] <= call.res[i]
              /\ call.res[i] <= heap[randomDevices[call.dev]][MaxField(call.reqs[i])]

---------------------------------------------------------------------------
(* C3 *)

\* C3: a Write of one update that names a bound fails with OutOfRange and leaves
\* the bound as it was when the value is beyond the absolute limit of the bound,
\* and succeeds and replaces the bound when the value is within it (the limit
\* itself included).
C3_OutOfRangeRejected ==
    [][(Called("Write") /\ Len(call'.params) = 1
            /\ call'.params[1].RO.Object \in BoundNames) =>
        LET param == call'.params[1]
            f == FieldOf(param.RO.Object)
            after == heap'[randomDevices'[call'.dev]]
        IN  IF Valid(param)
            THEN call'.err = NoErr /\ after[f] = param.Value
            ELSE call'.err = "OutOfRange" /\ after[f] = Before(call'.dev)[f]]_vars

---------------------------------------------------------------------------
(* C4 *)

\* C4: a Write batch whose first invalid update is at position k returns an
\* error and leaves the device as exactly the updates 1..k-1 make it from the
\* state the call found; no update from position k on is applied.
C4_StopsAtFirstInvalid ==
    [][(Called("Write") /\ FirstInvalid(call'.params) <= Len(call'.params)) =>
        /\ call'.err # NoErr
        /\ heap'[randomDevices'[call'.dev]]
             = ApplyPrefix(Before(call'.dev), call'.params,
                           FirstInvalid(call'.params) - 1)]_vars

\* a failed batch whose first invalid update is followed by a valid one, whose
\* value the bound it names does not hold
C4_Witness ==
    /\ call.op = "Write" /\ call.err # NoErr
    /\ \E k \in 1..Len(call.params) :
          /\ k = FirstInvalid(call.params)
          /\ k < Len(call.params)
          /\ Valid(call.params[k + 1])
          /\ heap[randomDevices[call.dev]][FieldOf(call.params[k + 1].RO.Object)]
               # call.params[k + 1].Value

---------------------------------------------------------------------------
(* C5 *)

\* C5 as stated: a Read whose requested type is none of Int8, Int16, Int32
\* fails with UnsupportedType and leaves the registry (its identifiers and
\* every device's bounds) as it was, also for an identifier not yet in it.
C5_NoMutationAtAll ==
    [][(Called("Read") /\ Len(call'.reqs) >= 1 /\ call'.reqs[1] \notin Widths) =>
        /\ call'.err = "UnsupportedType"
        /\ randomDevices' = randomDevices
        /\ heap' = heap]_vars

\* C5, amended: a Read with a request whose type is none of Int8, Int16, Int32
\* fails and returns no value, with UnsupportedType when that request is the
\* first of the call (or no request before it failed: only a request for a width
\* whose minimum exceeds its maximum can); it changes no bound of any device and
\* no entry of any other identifier, and the one mutation it can make is to
\* enter its own identifier, when not yet in the registry, with default bounds.
C5_UnsupportedTypeKeepsBounds ==
    [][(Called("Read") /\ \E i \in 1..Len(call'.reqs) : call'.reqs[i] \notin Widths) =>
        LET k == CHOOSE i \in 1..Len(call'.reqs) :
                    /\ call'.reqs[i] \notin Widths
                    /\ \A j \in 1..(i - 1) : call'.reqs[j] \in Widths
        IN  /\ call'.err # NoErr
            /\ call'.err # "UnsupportedType" =>
                  \E j \in 1..(k - 1) :
                      Before(call'.dev)[MinField(call'.reqs[j])]
                         > Before(call'.dev)[MaxField(call'.reqs[j])]
            /\ call'.res = <<>>
            /\ \A d \in Devices \ {call'.dev} : randomDevices'[d] = randomDevices[d]
            /\ \A id \in 1..Len(heap) : heap'[id] = heap[id]
            /\ IF Present(call'.dev)
               THEN randomDevices' = randomDevices /\ heap' = heap
               ELSE /\ randomDevices'[call'.dev] = Len(heap) + 1
                    /\ heap' = Append(heap, newRandomDevice)]_vars

\* a failed Read of an unsupported type that entered its identifier beside
\* another device whose bounds are not the default ones
C5_Witness ==
    /\ call.op = "Read" /\ call.err = "UnsupportedType"
    /\ call.reqs[1] \notin Widths
    /\ randomDevices[call.dev] = Len(heap)
    /\ \E d \in Devices \ {call.dev} :
          Present(d) /\ heap[randomDevices[d]] # newRandomDevice

---------------------------------------------------------------------------
(* C6 *)

\* C6: a Read or Write for an identifier not in the registry creates exactly one
\* state for it, with every bound at the limit of its width (a Write then applies
\* its updates to that state), and a Read of supported widths on it succeeds with
\* values inside the full range of each width; a call for an identifier in the
\* registry keeps the entry and the bounds its updates do not name.
C6_LazyCreateAndReuse ==
    [][(Called("Read") \/ Called("Write")) =>
        LET d == call'.dev
            named == {FieldOf(call'.params[i].RO.Object) :
                        i \in {j \in 1..Len(call'.params) :
                                 call'.params[j].RO.Object \in BoundNames}}
        IN  /\ \A e \in Devices \ {d} : randomDevices'[e] = randomDevices[e]
            /\ IF Present(d)
               THEN /\ randomDevices'[d] = randomDevices[d]
                    /\ Len(heap') = Len(heap)
                    /\ \A f \in Fields \ named :
                          heap'[randomDevices'[d]][f] = heap[randomDevices[d]][f]
               ELSE /\ randomDevices'[d] = Len(heap) + 1
                    /\ Len(heap') = Len(heap) + 1
                    /\ \A t \in Widths :
                          /\ MinField(t) \notin named =>
                                heap'[randomDevices'[d]][MinField(t)] = Floor(t)
                          /\ MaxField(t) \notin named =>
                                heap'[randomDevices'[d]][MaxField(t)] = Ceiling(t)
                    /\ (call'.op = "Read" /\ \A i \in 1..Len(call'.reqs) : call'.reqs[i] \in Widths) =>
                          /\ call'.err = NoErr
                          /\ Len(call'.res) = Len(call'.reqs)
                          /\ \A i \in 1..Len(call'.reqs) :
                                /\ Floor(call'.reqs[i]) <= call'.res[i]
                                /\ call'.res[i] <= Ceiling(call'.reqs[i])]_vars

\* a successful Read of two widths on a device that no Write has touched, beside
\* a device a Write has changed
C6_Witness ==
    /\ call.op = "Read" /\ call.err = NoErr /\ Len(call.res) = 2
    /\ call.reqs[1] # call.reqs[2]
    /\ randomDevices[call.dev] = Len(heap)
    /\ heap[randomDevices[call.dev]] = newRandomDevice
    /\ \E d \in Devices \ {call.dev} :
          Present(d) /\ heap[randomDevices[d]] # newRandomDevice

---------------------------------------------------------------------------
(* C7 *)

\* C7: a Write batch whose first invalid update names no bound fails with
\* UnknownField, and the device is as the updates before that one make it: the
\* update changes no bound and no later update is applied.
C7_UnknownField ==
    [][(Called("Write") /\ FirstInvalid(call'.params) <= Len(call'.params)
            /\ call'.params[FirstInvalid(call'.params)].RO.Object \notin BoundNames) =>
        /\ call'.err = "UnknownField"
        /\ heap'[randomDevices'[call'.dev]]
             = ApplyPrefix(Before(call'.dev), call'.params,
                           FirstInvalid(call'.params) - 1)]_vars

\* a batch failed with UnknownField at its first update, followed by a valid
\* update whose value the bound it names does not hold
C7_Witness ==
    /\ call.op = "Write" /\ call.err = "UnknownField"
    /\ Len(call.params) = 2
    /\ call.params[1].RO.Object \notin BoundNames
    /\ Valid(call.params[2])
    /\ heap[randomDevices[call.dev]][FieldOf(call.params[2].RO.Object)]
         # call.params[2].Value

---------------------------------------------------------------------------
(* C10 *)

\* C10: a Write changes, of the device it addresses, only bounds that its
\* updates name (a Write of one update: at most that one bound), and no bound of
\* any other device; a Read changes no bound of any device.
C10_Frame ==
    [][/\ Called("Write") =>
            LET d == call'.dev
                named == {FieldOf(call'.params[i].RO.Object) :
                            i \in {j \in 1..Len(call'.params) :
                                     call'.params[j].RO.Object \in BoundNames}}
            IN  /\ \A f \in Fields \ named :
                      heap'[randomDevices'[d]][f] = Before(d)[f]
                /\ \A e \in Devices \ {d} :
                      /\ randomDevices'[e] = randomDevices[e]
                      /\ Present(e) => heap'[randomDevices'[e]] = heap[randomDevices[e]]
       /\ Called("Read") =>
            \A e \in Devices :
                Present(e) => /\ randomDevices'[e] = randomDevices[e]
                              /\ heap'[randomDevices'[e]] = heap[randomDevices[e]]]_vars

\* a successful Write of one update that changed the bound it names, on a device
\* with another bound off its default, beside a device with changed bounds
C10_Witness ==
    /\ call.op = "Write" /\ call.err = NoErr /\ Len(call.params) = 1
    /\ heap[randomDevices[call.dev]].maxInt16 = 300
    /\ call.params[1] = Param("Min_Int8", "Int8", 10)
    /\ heap[randomDevices[call.dev]].minInt8 = 10
    /\ \E d \in Devices \ {call.dev} :
          Present(d) /\ heap[randomDevices[d]].minInt32 = -70000

---------------------------------------------------------------------------
(* C8 *)

\* C8: a Read of width t that samples a device while one Write batch updating
\* both the minimum and the maximum of t is in its loop on that device sees the
\* pair the Write found or the pair the Write leaves, never one bound of each.
C8_NoTornPair ==
    \A p \in Procs, q \in Procs :
        (/\ p # q
         /\ procs[p].op = "Read" /\ procs[q].op = "Write"
         /\ procs[q].pc \in {"loop", "done"}
         /\ procs[p].rd = procs[q].rd /\ procs[q].rd # 0
         /\ \A r \in Procs \ {p, q} : procs[r].op # "Write"
         /\ FirstInvalid(procs[q].params) > Len(procs[q].params)) =>
            LET final == ApplyPrefix(procs[q].snap, procs[q].params, Len(procs[q].params))
                named == {FieldOf(procs[q].params[i].RO.Object) :
                            i \in 1..Len(procs[q].params)}
            IN  \A k \in 1..Len(procs[p].samples) :
                    LET s == procs[p].samples[k]
                    IN  (q \in s.writers /\ MinField(s.t) \in named
                                         /\ MaxField(s.t) \in named) =>
                            \/ /\ s.lo = procs[q].snap[MinField(s.t)]
                               /\ s.hi = procs[q].snap[MaxField(s.t)]
                            \/ /\ s.lo = final[MinField(s.t)]
                               /\ s.hi = final[MaxField(s.t)]

---------------------------------------------------------------------------
(* C9 *)

\* C9: when all calls have returned, at most one state was created for each
\* identifier, and every bound a successful Write updated, and no other Write of
\* the same identifier names, holds in the registry's state of that identifier
\* the value the Write gave it.
C9_SerializedCreate ==
    (\A p \in Procs : procs[p].pc = "done") =>
        /\ \A d \in Devices :
              Cardinality({p \in Procs : procs[p].inserted /\ procs[p].dev = d}) <= 1
        /\ \A p \in Procs :
              (procs[p].op = "Write" /\ procs[p].err = NoErr) =>
                 \A i \in 1..Len(procs[p].params) :
                    LET f == FieldOf(procs[p].params[i].RO.Object)
                    IN  (\A q \in Procs \ {p} :
                            \/ procs[q].op # "Write" \/ procs[q].dev # procs[p].dev
                            \/ \A j \in 1..Len(procs[q].params) :
                                  procs[q].params[j].RO.Object \in BoundNames =>
                                      FieldOf(procs[q].params[j].RO.Object) # f) =>
                          heap[randomDevices[procs[p].dev]][f]
                             = ApplyPrefix(newRandomDevice, procs[p].params,
                                           Len(procs[p].params))[f]

====
